---- MODULE Spec2Model ----
(***************************************************************************)
(* Model of the deploy executor of nx-cloud-functions-deployer:            *)
(*   src/src/executors/deploy/utils/online-checksum.ts                     *)
(*     getOnlineChecksum, updateOnlineChecksum, redeployFailedFunctions,   *)
(*     getBaseOptions, executor                                            *)
(*   src/src/executors/deploy/utils/create-deploy-index.ts                 *)
(*     recordToString, checkForChanges, generateChecksum,                  *)
(*     getCachedChecksum, cacheChecksumLocal,                              *)
(*     toDeployIndexCode and the functions it calls (toEndCode,            *)
(*     toFunctionCodeType, toOptionsCode, removeAllOtherOptions, ...)      *)
(* Spec is a run of the executor; ForcedSpec is a run with options.force   *)
(* and a larger retry amount; CallSpec is one call of a function that      *)
(* computes its result from its arguments.                                 *)
(* Strings are sequences of characters, a character being a one-character  *)
(* string or the name of a code point; + is \o.                            *)
(***************************************************************************)
EXTENDS Integers, Sequences, FiniteSets, TLC

\* ------------------------------------------------------------------ bounds
NumFunctions == 2
MaxRetry == 1
MaxConcurrency == 1
MaxEntries == 2

\* the retry amount of a forced run: one more than MaxRetry, so that the
\* retries can stop before the last round
LongRetry == MaxRetry + 1

\* ------------------------------------------------------- program constants
DefaultConcurrency == 10

\* `undefined` of a string (checksum, text) and of a numeric option
NoValue == <<>>
Unset == -1

\* the discovered functions, named by their position in buildableFiles
Fns == 1..NumFunctions
\* a function name of the remote cache that matches no discovered function
StrangerFn == NumFunctions + 1

\* --------------------------------------------------------------- strings
\* the characters in use, in collation order.  "U+212A" stands for the one
\* character KELVIN SIGN, whose canonical decomposition is "K".
Alphabet == <<"=", "A", "B", "i", "K", "l", "z">>
KelvinSign == "U+212A"

\* localeCompare honours canonical equivalence (ECMA-262, String.prototype.
\* localeCompare): it returns 0 for distinguishable strings that are
\* canonically equivalent, so such characters share a rank.
CharRank(c) ==
    CHOOSE i \in 1..Len(Alphabet) :
        Alphabet[i] = (IF c = KelvinSign THEN "K" ELSE c)

RECURSIVE localeCompare(_, _)
localeCompare(a, b) ==
    IF a = <<>> /\ b = <<>> THEN 0
    ELSE IF a = <<>> THEN -1
    ELSE IF b = <<>> THEN 1
    ELSE IF CharRank(Head(a)) < CharRank(Head(b)) THEN -1
    ELSE IF CharRank(Head(a)) > CharRank(Head(b)) THEN 1
    ELSE localeCompare(Tail(a), Tail(b))

\* Array.prototype.sort of the entries by key (stable insertion sort)
RECURSIVE InsertEntry(_, _)
InsertEntry(e, sorted) ==
    IF sorted = <<>> THEN <<e>>
    ELSE IF localeCompare(e[1], Head(sorted)[1]) < 0 THEN <<e>> \o sorted
    ELSE <<Head(sorted)>> \o InsertEntry(e, Tail(sorted))

RECURSIVE SortEntries(_)
SortEntries(entries) ==
    IF entries = <<>> THEN <<>>
    ELSE InsertEntry(entries[Len(entries)],
                     SortEntries(SubSeq(entries, 1, Len(entries) - 1)))

RECURSIVE JoinEntries(_)
JoinEntries(entries) ==
    IF entries = <<>> THEN <<>>
    ELSE Head(entries)[1] \o <<"=">> \o Head(entries)[2]
         \o JoinEntries(Tail(entries))

\* a record is the sequence of its <<key, value>> entries in insertion order
recordToString(record) == JoinEntries(SortEntries(record))

\* md5 hex digest: a value that identifies the hashed text
generateChecksum(code) == <<"md5">> \o code

\* the environment every function of the run carries
Environment == << <<<<"B">>, <<"i">>>>, <<<<"A">>, <<"l">>>> >>

\* contents of the build output
IndexCode == <<"i">>
LoggerCode == <<"l">>

\* checksums a baseline (local file or remote cache entry) can hold
StaleChecksum == generateChecksum(<<"z">>)
BaselineChecksums ==
    { generateChecksum(IndexCode \o recordToString(Environment)), StaleChecksum }


\* what readFile can yield: the text of the file, or an error
ReadOk(text) == [ok |-> TRUE, text |-> text]
ReadError == [ok |-> FALSE, text |-> NoValue]
ReadResults(texts) == { ReadOk(t) : t \in texts } \cup {ReadError}

\* whether a discovered function declares the auxiliary logger file
LoggerFileChoices == {FALSE}

\* --------------------------------------------------------- pure functions
\* variant: every result passes the filter
isDeployableFunctionAlways(result) == TRUE

\* !!deployableFunction
isDeployableFunction(result) == result.returned

getCachedChecksum(checksumFileRead) ==
    IF checksumFileRead.ok THEN checksumFileRead.text ELSE NoValue

\* variant: the comparison forgets the force flag
UnchangedIgnoresForce(force, cachedChecksum, newChecksum) ==
    cachedChecksum # NoValue /\ cachedChecksum = newChecksum

\* lines 344-348: the function has not changed
Unchanged(force, cachedChecksum, newChecksum) ==
    ~force /\ cachedChecksum # NoValue /\ cachedChecksum = newChecksum

\* variant: the catch block returns nothing
checkForChangesCatchSkips(fn) ==
    [outcome |-> "error", returned |-> FALSE, checksum |-> fn.checksum,
     cachedChecksum |-> NoValue, newChecksum |-> NoValue, fileRead |-> FALSE]

\* lines 361-369: the catch block returns the function as it is
checkForChangesCatch(fn) ==
    [outcome |-> "error", returned |-> TRUE, checksum |-> fn.checksum,
     cachedChecksum |-> NoValue, newChecksum |-> NoValue, fileRead |-> FALSE]

\* variant: a readable local checksum file is the baseline even when the
\* function carries a checksum
checkForChangesPrefersFile(fn, indexRead, loggerRead, checksumFileRead) ==
    IF ~indexRead.ok
    THEN checkForChangesCatch(fn)
    ELSE LET newCode == indexRead.text \o
                 (IF fn.hasLoggerFile /\ loggerRead.ok THEN loggerRead.text ELSE <<>>)
             environmentString == recordToString(fn.environment)
             cachedChecksum == IF checksumFileRead.ok THEN getCachedChecksum(checksumFileRead)
                               ELSE fn.checksum
             newChecksum == generateChecksum(newCode \o environmentString)
         IN  IF Unchanged(fn.force, cachedChecksum, newChecksum)
             THEN [outcome |-> "unchanged", returned |-> FALSE, checksum |-> fn.checksum,
                   cachedChecksum |-> cachedChecksum, newChecksum |-> newChecksum,
                   fileRead |-> TRUE]
             ELSE [outcome |-> "changed", returned |-> TRUE, checksum |-> newChecksum,
                   cachedChecksum |-> cachedChecksum, newChecksum |-> newChecksum,
                   fileRead |-> TRUE]

\* variant: a failed read of the logger file ends in the catch block
checkForChangesLoggerFatal(fn, indexRead, loggerRead, checksumFileRead) ==
    IF ~indexRead.ok \/ (fn.hasLoggerFile /\ ~loggerRead.ok)
    THEN checkForChangesCatch(fn)
    ELSE LET newCode == indexRead.text \o
                 (IF fn.hasLoggerFile /\ loggerRead.ok THEN loggerRead.text ELSE <<>>)
             environmentString == recordToString(fn.environment)
             cachedChecksum == IF fn.checksum # NoValue THEN fn.checksum
                               ELSE getCachedChecksum(checksumFileRead)
             newChecksum == generateChecksum(newCode \o environmentString)
         IN  IF Unchanged(fn.force, cachedChecksum, newChecksum)
             THEN [outcome |-> "unchanged", returned |-> FALSE, checksum |-> fn.checksum,
                   cachedChecksum |-> cachedChecksum, newChecksum |-> newChecksum,
                   fileRead |-> fn.checksum = NoValue]
             ELSE [outcome |-> "changed", returned |-> TRUE, checksum |-> newChecksum,
                   cachedChecksum |-> cachedChecksum, newChecksum |-> newChecksum,
                   fileRead |-> fn.checksum = NoValue]

\* lines 321-370.  fn: the DeployFunctionData fields the change check reads;
\* indexRead, loggerRead, checksumFileRead: what reading src/index.js,
\* src/logger.js and checksum.md5 yields when the file is read; fileRead in
\* the result: getCachedChecksum was called
checkForChanges(fn, indexRead, loggerRead, checksumFileRead) ==
    IF ~indexRead.ok
    THEN checkForChangesCatch(fn)
    ELSE LET newCode == indexRead.text \o
                 (IF fn.hasLoggerFile /\ loggerRead.ok THEN loggerRead.text ELSE <<>>)
             environmentString == recordToString(fn.environment)
             cachedChecksum == IF fn.checksum # NoValue THEN fn.checksum
                               ELSE getCachedChecksum(checksumFileRead)
             newChecksum == generateChecksum(newCode \o environmentString)
         IN  IF Unchanged(fn.force, cachedChecksum, newChecksum)
             THEN [outcome |-> "unchanged", returned |-> FALSE, checksum |-> fn.checksum,
                   cachedChecksum |-> cachedChecksum, newChecksum |-> newChecksum,
                   fileRead |-> fn.checksum = NoValue]
             ELSE [outcome |-> "changed", returned |-> TRUE, checksum |-> newChecksum,
                   cachedChecksum |-> cachedChecksum, newChecksum |-> newChecksum,
                   fileRead |-> fn.checksum = NoValue]

\* steps of getOnlineChecksum that can fail
FetchSteps == <<"writeFile", "runFile", "readFile", "parse">>
FetchStepIndex(step) == CHOOSE i \in 1..Len(FetchSteps) : FetchSteps[i] = step
FetchFailures == { FetchSteps[i] : i \in 1..Len(FetchSteps) } \cup {"none"}

\* the remote cache: name -> checksum, NoValue where it has no entry
RemoteNames == Fns \cup {StrangerFn}
\* (one checksum is enough for the name that matches no function)
RemoteCaches ==
    { cache \in [RemoteNames -> BaselineChecksums \cup {NoValue}] :
        cache[StrangerFn] \in {StaleChecksum, NoValue} }
EmptyCache == [n \in RemoteNames |-> NoValue]

\* variant: a failure after the hook ran still returns what the hook fetched
getOnlineChecksumKeepsFetched(force, failAt, remote) ==
    IF force
    THEN [defined |-> FALSE, cache |-> EmptyCache, scriptWritten |-> FALSE,
          hookRuns |-> 0, failedAt |-> "none"]
    ELSE IF failAt # "none" /\ FetchStepIndex(failAt) <= 2
    THEN [defined |-> FALSE, cache |-> EmptyCache,
          scriptWritten |-> FetchStepIndex(failAt) > 1,
          hookRuns |-> IF FetchStepIndex(failAt) > 1 THEN 1 ELSE 0,
          failedAt |-> failAt]
    ELSE [defined |-> TRUE, cache |-> remote, scriptWritten |-> TRUE,
          hookRuns |-> 1, failedAt |-> failAt]

\* failAt: the step that fails ("none": no step), remote: what the hook fetches
getOnlineChecksum(force, failAt, remote) ==
    IF force
    THEN [defined |-> FALSE, cache |-> EmptyCache, scriptWritten |-> FALSE,
          hookRuns |-> 0, failedAt |-> "none"]
    ELSE IF failAt # "none"
    THEN [defined |-> FALSE, cache |-> EmptyCache,
          scriptWritten |-> FetchStepIndex(failAt) > 1,
          hookRuns |-> IF FetchStepIndex(failAt) > 1 THEN 1 ELSE 0,
          failedAt |-> failAt]
    ELSE [defined |-> TRUE, cache |-> remote, scriptWritten |-> TRUE,
          hookRuns |-> 1, failedAt |-> "none"]

\* variant: the option is ignored
LimiterSizeIgnoresOption(concurrency) == DefaultConcurrency

\* options.concurrency ?? 10
LimiterSize(concurrency) ==
    IF concurrency = Unset THEN DefaultConcurrency ELSE concurrency

\* variant: the loop body runs once before the bound is tested
RetryRoundsAtLeastOne(retryAmount) ==
    IF retryAmount = Unset \/ retryAmount = 0 THEN 1 ELSE retryAmount

\* number of iterations of the retry loop the guard and the loop bound allow
RetryRounds(retryAmount) ==
    IF retryAmount = Unset \/ retryAmount = 0 THEN 0 ELSE retryAmount

\* -------------------------------------------------------------- sequences
RECURSIVE Filter(_, _)
Filter(seq, keep) ==
    IF seq = <<>> THEN <<>>
    ELSE (IF Head(seq) \in keep THEN <<Head(seq)>> ELSE <<>>) \o Filter(Tail(seq), keep)

Range(seq) == { seq[i] : i \in 1..Len(seq) }

\* buildableFiles, in discovery order
RECURSIVE Upto(_)
Upto(n) == IF n = 0 THEN <<>> ELSE Upto(n - 1) \o <<n>>
buildableFiles == Upto(NumFunctions)


\* ------------------------------------------------------------------ state
VARIABLES
    pc,                  \* position of the executor
    options,             \* DeployExecutorOptions the run reads before the cleanup
    context,             \* what getBaseOptions finds in the ExecutorContext
    thrown,              \* message of the error the executor rejected with
    discovered,          \* getBuildableFiles has settled
    onlineChecksum,      \* result of getOnlineChecksum, with `settled`
    checksum,            \* checksum field of each DeployFunctionData
    build,               \* per function: buildFunction promise
    check,               \* per function: checkForChanges promise and its locals
    deployableFunctions, \* executor's array
    deployedFiles,       \* executor's array
    failedFunctions,     \* parameter failedFunctions of redeployFailedFunctions
    round,               \* 0: first deploy round, i + 1: retry iteration i
    queue,               \* tasks handed to a limiter and not yet started
    running,             \* deployFunction calls started and not settled
    results,             \* per function: what its task of this round settled with
    succeeded,           \* functions some deployFunction call returned
    dispatchCount,       \* per function: deployFunction calls handed to a limiter
    loggerStatus,        \* what the logger has recorded per function
    cacheWrite,          \* per function: cacheChecksumLocal promise
    checksumFile,        \* per function: what this run wrote to checksum.md5
    update,              \* updateOnlineChecksum promise and its effects
    temporaryDirectory,  \* "present" or "deleted"
    cleanup,             \* options.debug as read by the cleanup, and its rm calls
    result,              \* what the executor returned
    called,              \* a function called on its own: its name and argument
    callResult           \* what that call returned or threw

vars == << pc, options, context, thrown, discovered, onlineChecksum, checksum,
           build, check, deployableFunctions, deployedFiles, failedFunctions,
           round, queue, running, results, succeeded, dispatchCount, loggerStatus, cacheWrite,
           checksumFile, update, temporaryDirectory, cleanup, result,
           called, callResult >>

\* the variables of the executor run
executorVars ==
    << pc, options, context, thrown, discovered, onlineChecksum, checksum,
       build, check, deployableFunctions, deployedFiles, failedFunctions,
       round, queue, running, results, succeeded, dispatchCount, loggerStatus,
       cacheWrite, checksumFile, update, temporaryDirectory, cleanup, result >>

Options ==
    [ force : BOOLEAN,
      retryAmount : {Unset} \cup 0..MaxRetry,
      concurrency : {Unset} \cup 1..MaxConcurrency ]

Contexts == [ projectName : BOOLEAN, workspace : BOOLEAN, firebaseProjectId : BOOLEAN ]

PendingFetch ==
    [defined |-> FALSE, cache |-> EmptyCache, scriptWritten |-> FALSE,
     hookRuns |-> 0, failedAt |-> "none", settled |-> FALSE]

IdleCheck ==
    [outcome |-> "idle", returned |-> FALSE, checksum |-> NoValue,
     cachedChecksum |-> NoValue, newChecksum |-> NoValue, fileRead |-> FALSE]

IdleUpdate ==
    [state |-> "idle", scriptWritten |-> FALSE, hookRuns |-> 0,
     newFunctionsCache |-> EmptyCache]

\* no function is called on its own
NoCall == [fn |-> "none"]
NotReturned == [done |-> FALSE, threw |-> FALSE, value |-> NoValue]

\* the state of a run before its first step, apart from its inputs
Constructed ==
    /\ pc = "start"
    /\ thrown = ""
    /\ discovered = FALSE
    /\ onlineChecksum = PendingFetch
    /\ checksum = [f \in Fns |-> NoValue]
    /\ build = [f \in Fns |-> "idle"]
    /\ check = [f \in Fns |-> IdleCheck]
    /\ deployableFunctions = <<>>
    /\ deployedFiles = <<>>
    /\ failedFunctions = <<>>
    /\ round = 0
    /\ queue = <<>>
    /\ running = {}
    /\ results = [f \in Fns |-> "none"]
    /\ succeeded = {}
    /\ dispatchCount = [f \in Fns |-> 0]
    /\ loggerStatus = [f \in Fns |-> "none"]
    /\ cacheWrite = [f \in Fns |-> "idle"]
    /\ checksumFile = [f \in Fns |-> NoValue]
    /\ update = IdleUpdate
    /\ temporaryDirectory = "present"
    /\ cleanup = [read |-> FALSE, debug |-> FALSE, rmCalls |-> 0]
    /\ result = [returned |-> FALSE, success |-> FALSE]

Init ==
    /\ options \in Options
    /\ context \in Contexts
    /\ Constructed
    /\ called = NoCall
    /\ callResult = NotReturned


\* ---------------------------------------------------------------- helpers
\* a task is <<function, round>>; round 0 runs under the executor's limiter,
\* the retry rounds under the limiter redeployFailedFunctions creates
LimiterOf(task) == IF task[2] = 0 THEN "executor" ELSE "retry"
Limiters == {"executor", "retry"}

RECURSIVE TasksOf(_, _)
TasksOf(fns, rnd) ==
    IF fns = <<>> THEN <<>> ELSE << <<Head(fns), rnd>> >> \o TasksOf(Tail(fns), rnd)

RECURSIVE QueueOf(_, _)
QueueOf(q, limiter) ==
    IF q = <<>> THEN <<>>
    ELSE (IF LimiterOf(Head(q)) = limiter THEN <<Head(q)>> ELSE <<>>)
         \o QueueOf(Tail(q), limiter)

RECURSIVE Take(_, _)
Take(q, n) == IF n <= 0 \/ q = <<>> THEN <<>> ELSE <<Head(q)>> \o Take(Tail(q), n - 1)

\* getLimiter(size): the limiter starts waiting tasks, oldest first, while
\* fewer than `size` of its tasks run.  Admitted(q, r, size) are the tasks of
\* the waiting queue q it starts when the tasks r are running.
Room(limiter, r, size) ==
    size - Cardinality({ t \in r : LimiterOf(t) = limiter })

Admitted(q, r, size) ==
    UNION { Range(Take(QueueOf(q, limiter), Room(limiter, r, size))) :
            limiter \in Limiters }

LimiterSettle(q, r) ==
    /\ running' = r \cup Admitted(q, r, LimiterSize(options.concurrency))
    /\ queue' = Filter(q, Range(q) \ Admitted(q, r, LimiterSize(options.concurrency)))

\* fns.map((f) => limit(() => deployFunction(f))): every call goes through limit
Dispatch(fns, rnd) ==
    /\ LimiterSettle(queue \o TasksOf(fns, rnd), running)
    /\ results' = [f \in Fns |-> "none"]
    /\ dispatchCount' = [f \in Fns |->
            IF f \in Range(fns) THEN dispatchCount[f] + 1 ELSE dispatchCount[f]]

\* variant: the round is over when the first of its tasks has settled
PromiseAnySettled(rnd) ==
    \/ \E f \in Fns : results[f] # "none"
    \/ /\ \A i \in 1..Len(queue) : queue[i][2] # rnd
       /\ \A t \in running : t[2] # rnd

\* await Promise.all(...) of the round's tasks has resolved
PromiseAllSettled(rnd) ==
    /\ \A i \in 1..Len(queue) : queue[i][2] # rnd
    /\ \A t \in running : t[2] # rnd

\* the functions the settled round returned (the others returned nothing)
Returned == { f \in Fns : results[f] = "ok" }

\* variant: the results are not filtered
FilterDeployableKeepsAll(fns, returned) == fns

\* (await Promise.all(...)).filter(isDeployableFunction)
FilterDeployable(fns, returned) == Filter(fns, returned)

\* variant: the negation is missing
SuccessFlagInverted(hasFailed) == hasFailed

\* success: !logger.hasFailedFunctions
SuccessFlag(hasFailed) == ~hasFailed

Tasks == Fns \X (0..LongRetry)

\* logger.hasFailedFunctions
hasFailedFunctions == \E f \in Fns : loggerStatus[f] = "failed"

\* variant: the checksums are persisted only when no function failed
BeginPersistOnlyOnSuccess(deployed) ==
    LET deployedFilesToUpdateChecksum ==
            IF hasFailedFunctions THEN <<>>
            ELSE Filter(deployed, { f \in Fns : checksum[f] # NoValue })
    IN  /\ cacheWrite' = [f \in Fns |->
                IF f \in Range(deployedFilesToUpdateChecksum) THEN "running" ELSE "idle"]
        /\ update' = [IdleUpdate EXCEPT !.state = "running"]
        /\ pc' = "persist"

\* variant: the checksum of every function handed to the deploy is written
BeginPersistOfDispatched(deployed) ==
    LET deployedFilesToUpdateChecksum ==
            Filter(buildableFiles,
                   { f \in Fns : dispatchCount[f] > 0 /\ checksum[f] # NoValue })
    IN  /\ cacheWrite' = [f \in Fns |->
                IF f \in Range(deployedFilesToUpdateChecksum) THEN "running" ELSE "idle"]
        /\ update' = [IdleUpdate EXCEPT !.state = "running"]
        /\ pc' = "persist"

\* lines 437-449 of the executor: start the checksum persistence
BeginPersist(deployed) ==
    LET deployedFilesToUpdateChecksum ==
            Filter(deployed, { f \in Fns : checksum[f] # NoValue })
    IN  /\ cacheWrite' = [f \in Fns |->
                IF f \in Range(deployedFilesToUpdateChecksum) THEN "running" ELSE "idle"]
        /\ update' = [IdleUpdate EXCEPT !.state = "running"]
        /\ pc' = "persist"

\* ---------------------------------------------------------------- actions
getBaseOptions ==
    /\ pc = "start"
    /\ IF ~context.projectName
       THEN pc' = "threw" /\ thrown' = "Project name is not defined"
       ELSE IF ~context.workspace
       THEN pc' = "threw" /\ thrown' = "Workspace is not defined"
       ELSE IF ~context.firebaseProjectId
       THEN pc' = "threw" /\ thrown' = "firebaseProjectId is required"
       ELSE pc' = "discover" /\ thrown' = thrown
    /\ UNCHANGED << options, context, called, callResult, discovered, onlineChecksum, checksum, build,
                    check, deployableFunctions, deployedFiles, failedFunctions,
                    round, queue, running, results, succeeded, dispatchCount, loggerStatus, cacheWrite,
                    checksumFile, update, temporaryDirectory, cleanup, result >>

getBuildableFiles ==
    /\ pc = "discover"
    /\ ~discovered
    /\ discovered' = TRUE
    /\ UNCHANGED << pc, options, context, called, callResult, thrown, onlineChecksum, checksum, build,
                    check, deployableFunctions, deployedFiles, failedFunctions,
                    round, queue, running, results, succeeded, dispatchCount, loggerStatus, cacheWrite,
                    checksumFile, update, temporaryDirectory, cleanup, result >>

GetOnlineChecksum ==
    /\ pc = "discover"
    /\ ~onlineChecksum.settled
    /\ \E failAt \in FetchFailures, remote \in RemoteCaches :
          onlineChecksum' =
              getOnlineChecksum(options.force, failAt, remote) @@ [settled |-> TRUE]
    /\ UNCHANGED << pc, options, context, called, callResult, thrown, discovered, checksum, build,
                    check, deployableFunctions, deployedFiles, failedFunctions,
                    round, queue, running, results, succeeded, dispatchCount, loggerStatus, cacheWrite,
                    checksumFile, update, temporaryDirectory, cleanup, result >>

\* lines 380-399: merge the remote cache into the functions, start every build
MergeOnlineChecksum ==
    /\ pc = "discover"
    /\ discovered
    /\ onlineChecksum.settled
    /\ checksum' = [f \in Fns |->
            IF onlineChecksum.defined /\ onlineChecksum.cache[f] # NoValue
            THEN onlineChecksum.cache[f] ELSE checksum[f]]
    /\ build' = [f \in Fns |-> "running"]
    /\ onlineChecksum' = [onlineChecksum EXCEPT !.failedAt = "none"]
    /\ pc' = "build"
    /\ UNCHANGED << options, context, called, callResult, thrown, discovered,
                    check, deployableFunctions, deployedFiles, failedFunctions,
                    round, queue, running, results, succeeded, dispatchCount, loggerStatus, cacheWrite,
                    checksumFile, update, temporaryDirectory, cleanup, result >>

buildFunction(f) ==
    /\ pc = "build"
    /\ build[f] = "running"
    /\ \E ok \in BOOLEAN :
          build' = [build EXCEPT ![f] = IF ok THEN "built" ELSE "failed"]
    /\ UNCHANGED << pc, options, context, called, callResult, thrown, discovered, onlineChecksum,
                    checksum, check, deployableFunctions, deployedFiles,
                    failedFunctions, round, queue, running, results,
                    succeeded, dispatchCount, loggerStatus, cacheWrite, checksumFile, update,
                    temporaryDirectory, cleanup, result >>

\* variant: the change checks start when the first build has settled
StartChecksAfterAnyBuild ==
    /\ pc = "build"
    /\ \E f \in Fns : build[f] \in {"built", "failed"}
    /\ deployableFunctions' = Filter(buildableFiles, { f \in Fns : build[f] = "built" })
    /\ check' = [f \in Fns |-> [IdleCheck EXCEPT !.outcome = "running"]]
    /\ pc' = "check"
    /\ UNCHANGED << options, context, called, callResult, thrown, discovered, onlineChecksum,
                    checksum, build, deployedFiles, failedFunctions, round,
                    queue, running, results, succeeded, dispatchCount, loggerStatus, cacheWrite,
                    checksumFile, update, temporaryDirectory, cleanup, result >>

\* lines 398-403: keep the built functions, start every change check
StartChecks ==
    /\ pc = "build"
    /\ \A f \in Fns : build[f] \in {"built", "failed"}
    /\ deployableFunctions' = Filter(buildableFiles, { f \in Fns : build[f] = "built" })
    /\ check' = [f \in Fns |-> [IdleCheck EXCEPT !.outcome = "running"]]
    /\ pc' = "check"
    /\ UNCHANGED << options, context, called, callResult, thrown, discovered, onlineChecksum,
                    checksum, build, deployedFiles, failedFunctions, round,
                    queue, running, results, succeeded, dispatchCount, loggerStatus, cacheWrite,
                    checksumFile, update, temporaryDirectory, cleanup, result >>

CheckForChanges(f) ==
    /\ pc = "check"
    /\ check[f].outcome = "running"
    /\ \E hasLoggerFile \in LoggerFileChoices,
          indexRead \in ReadResults({IndexCode}) :
          \E loggerRead \in (IF hasLoggerFile /\ indexRead.ok
                              THEN ReadResults({LoggerCode}) ELSE {ReadError}),
             checksumFileRead \in (IF indexRead.ok
                                    THEN ReadResults(BaselineChecksums)
                                    ELSE {ReadError}) :
             LET fn == [checksum |-> checksum[f], force |-> options.force,
                        hasLoggerFile |-> hasLoggerFile, environment |-> Environment]
                 r == checkForChanges(fn, indexRead, loggerRead, checksumFileRead)
             IN  /\ check' = [check EXCEPT ![f] = r]
                 /\ checksum' = [checksum EXCEPT ![f] = r.checksum]
    /\ UNCHANGED << pc, options, context, called, callResult, thrown, discovered, onlineChecksum,
                    build, deployableFunctions, deployedFiles, failedFunctions,
                    round, queue, running, results, succeeded, dispatchCount, loggerStatus, cacheWrite,
                    checksumFile, update, temporaryDirectory, cleanup, result >>

\* lines 402-426: keep the changed functions, hand each to the limiter.
\* The build results, the fetched cache and the locals of the change checks
\* are not read from here on.
StartDeploy ==
    /\ pc = "check"
    /\ \A f \in Fns : check[f].outcome \in {"unchanged", "changed", "error"}
    /\ LET changed == Filter(buildableFiles,
                             { f \in Fns : isDeployableFunction(check[f]) })
       IN  /\ deployableFunctions' = changed
           /\ Dispatch(changed, 0)
    /\ check' = [f \in Fns |-> [check[f] EXCEPT !.cachedChecksum = NoValue,
                                                 !.newChecksum = NoValue,
                                                 !.checksum = NoValue,
                                                 !.fileRead = FALSE]]
    /\ onlineChecksum' = [PendingFetch EXCEPT !.settled = TRUE]
    /\ build' = [f \in Fns |-> "idle"]
    /\ round' = 0
    /\ pc' = "deploy"
    /\ UNCHANGED << options, context, called, callResult, thrown, discovered,
                    checksum, deployedFiles, failedFunctions,
                    succeeded, loggerStatus, cacheWrite, checksumFile, update,
                    temporaryDirectory, cleanup, result >>

\* a deployFunction call settles: the function (success) or nothing (failure)
deployFunction(task) ==
    /\ task \in running
    /\ \E ok \in BOOLEAN :
          /\ results' = IF task[2] = round
                        THEN [results EXCEPT ![task[1]] = IF ok THEN "ok" ELSE "fail"]
                        ELSE results
          /\ succeeded' = IF ok THEN succeeded \cup {task[1]} ELSE succeeded
          /\ loggerStatus' = [loggerStatus EXCEPT ![task[1]] =
                                 IF ok THEN "deployed" ELSE "failed"]
    /\ LimiterSettle(queue, running \ {task})
    /\ UNCHANGED << pc, options, context, called, callResult, thrown, discovered, onlineChecksum,
                    checksum, build, check, deployableFunctions, deployedFiles,
                    failedFunctions, round, dispatchCount, cacheWrite,
                    checksumFile, update, temporaryDirectory, cleanup, result >>


\* lines 420-449: the first round has settled; collect the deployed functions,
\* call redeployFailedFunctions(deployableFunctions, deployedFiles, options)
\* when some function is missing, else go on to persist the checksums.
\* The callee's signature is (deployedFiles, failedFunctions, options): its
\* parameter failedFunctions is bound to the second argument.
FirstRoundDone ==
    /\ pc = "deploy"
    /\ PromiseAllSettled(0)
    /\ LET deployed == FilterDeployable(deployableFunctions, Returned)
           call == [deployedFiles |-> deployableFunctions,
                    failedFunctions |-> deployed]
       IN  /\ deployedFiles' = deployed
           /\ IF /\ Len(deployableFunctions) # Len(deployed)
                 /\ RetryRounds(options.retryAmount) > 0
              THEN /\ failedFunctions' = call.failedFunctions
                   /\ round' = 1
                   /\ Dispatch(call.failedFunctions, 1)
                   /\ pc' = "retry"
                   /\ UNCHANGED << cacheWrite, update >>
              ELSE /\ BeginPersist(deployed)
                   /\ results' = [f \in Fns |-> "none"]
                   /\ UNCHANGED << failedFunctions, round, queue, running,
                                   dispatchCount >>
    /\ UNCHANGED << options, context, called, callResult, thrown, discovered, onlineChecksum,
                    checksum, build, check, deployableFunctions, succeeded,
                    loggerStatus, checksumFile, temporaryDirectory, cleanup, result >>

\* variant: the loop goes on when the failing set has become empty
RetryRoundDoneWithoutBreak ==
    /\ pc = "retry"
    /\ PromiseAllSettled(round)
    /\ LET i == round - 1
           redeployedFiles == FilterDeployable(failedFunctions, Returned)
           stillFailed == IF redeployedFiles = <<>> THEN failedFunctions
                          ELSE Filter(failedFunctions, Fns \ Range(redeployedFiles))
           break == FALSE
       IN  /\ deployableFunctions' = deployableFunctions \o redeployedFiles
           /\ IF ~break /\ i + 1 < RetryRounds(options.retryAmount)
              THEN /\ round' = round + 1
                   /\ failedFunctions' = stillFailed
                   /\ Dispatch(stillFailed, round + 1)
                   /\ UNCHANGED << pc, cacheWrite, update >>
              ELSE /\ BeginPersist(deployedFiles)
                   /\ failedFunctions' = <<>>
                   /\ round' = 0
                   /\ results' = [f \in Fns |-> "none"]
                   /\ UNCHANGED << queue, running, dispatchCount >>
    /\ UNCHANGED << options, context, called, callResult, thrown, discovered, onlineChecksum,
                    checksum, build, check, deployedFiles, succeeded,
                    loggerStatus, checksumFile, temporaryDirectory, cleanup, result >>

\* lines 219-247 (one iteration of the retry loop has settled), then either
\* the next iteration or the return to the executor, lines 437-449.
\* deployedFiles.push(...) of the callee appends to the array bound to its
\* first parameter, which is the executor's deployableFunctions.
RetryRoundDone ==
    /\ pc = "retry"
    /\ PromiseAllSettled(round)
    /\ LET i == round - 1
           redeployedFiles == FilterDeployable(failedFunctions, Returned)
           stillFailed == IF redeployedFiles = <<>> THEN failedFunctions
                          ELSE Filter(failedFunctions, Fns \ Range(redeployedFiles))
           break == redeployedFiles # <<>> /\ stillFailed = <<>>
       IN  /\ deployableFunctions' = deployableFunctions \o redeployedFiles
           /\ IF ~break /\ i + 1 < RetryRounds(options.retryAmount)
              THEN /\ round' = round + 1
                   /\ failedFunctions' = stillFailed
                   /\ Dispatch(stillFailed, round + 1)
                   /\ UNCHANGED << pc, cacheWrite, update >>
              ELSE /\ BeginPersist(deployedFiles)
                   /\ failedFunctions' = <<>>
                   /\ round' = 0
                   /\ results' = [f \in Fns |-> "none"]
                   /\ UNCHANGED << queue, running, dispatchCount >>
    /\ UNCHANGED << options, context, called, callResult, thrown, discovered, onlineChecksum,
                    checksum, build, check, deployedFiles, succeeded,
                    loggerStatus, checksumFile, temporaryDirectory, cleanup, result >>

\* variant: a failed write rejects, and the rejection leaves the executor
cacheChecksumLocalRejects(f) ==
    /\ pc = "persist"
    /\ cacheWrite[f] = "running"
    /\ IF checksum[f] = NoValue
       THEN /\ cacheWrite' = [cacheWrite EXCEPT ![f] = "skipped"]
            /\ UNCHANGED << checksumFile, pc, thrown >>
       ELSE \E ok \in BOOLEAN :
              IF ok
              THEN /\ cacheWrite' = [cacheWrite EXCEPT ![f] = "written"]
                   /\ checksumFile' = [checksumFile EXCEPT ![f] = checksum[f]]
                   /\ UNCHANGED << pc, thrown >>
              ELSE /\ cacheWrite' = [cacheWrite EXCEPT ![f] = "failed"]
                   /\ pc' = "threw"
                   /\ thrown' = "writeFile"
                   /\ UNCHANGED checksumFile
    /\ UNCHANGED << options, context, called, callResult, discovered, onlineChecksum,
                    checksum, build, check, deployableFunctions, deployedFiles,
                    failedFunctions, round, queue, running, results,
                    succeeded, dispatchCount, loggerStatus, update, temporaryDirectory, cleanup, result >>

\* lines 387-400 of create-deploy-index.ts: a failed write is caught and logged
cacheChecksumLocal(f) ==
    /\ pc = "persist"
    /\ cacheWrite[f] = "running"
    /\ IF checksum[f] = NoValue
       THEN /\ cacheWrite' = [cacheWrite EXCEPT ![f] = "skipped"]
            /\ UNCHANGED checksumFile
       ELSE \E ok \in BOOLEAN :
              IF ok
              THEN /\ cacheWrite' = [cacheWrite EXCEPT ![f] = "written"]
                   /\ checksumFile' = [checksumFile EXCEPT ![f] = checksum[f]]
              ELSE /\ cacheWrite' = [cacheWrite EXCEPT ![f] = "failed"]
                   /\ UNCHANGED checksumFile
    /\ UNCHANGED << pc, options, context, called, callResult, thrown, discovered, onlineChecksum,
                    checksum, build, check, deployableFunctions, deployedFiles,
                    failedFunctions, round, queue, running, results,
                    succeeded, dispatchCount, loggerStatus, update, temporaryDirectory, cleanup, result >>

\* variant: the mapping is built from every function handed to the deploy
updateOnlineChecksumOfDispatched ==
    /\ pc = "persist"
    /\ update.state = "running"
    /\ LET filesWithChecksum ==
               Filter(deployableFunctions, { f \in Fns : checksum[f] # NoValue })
           newOnlineChecksum ==
               [n \in RemoteNames |->
                   IF n \in Range(filesWithChecksum) THEN checksum[n] ELSE NoValue]
       IN  IF filesWithChecksum = <<>>
           THEN update' = [update EXCEPT !.state = "skipped"]
           ELSE \E failAt \in {"none", "writeFile", "runFile"} :
                  update' =
                    [state |-> IF failAt = "none" THEN "done" ELSE "failed",
                     scriptWritten |-> failAt # "writeFile",
                     hookRuns |-> IF failAt = "writeFile" THEN 0 ELSE 1,
                     newFunctionsCache |->
                         IF failAt = "writeFile" THEN EmptyCache ELSE newOnlineChecksum]
    /\ UNCHANGED << pc, options, context, called, callResult, thrown, discovered, onlineChecksum,
                    checksum, build, check, deployableFunctions, deployedFiles,
                    failedFunctions, round, queue, running, results,
                    succeeded, dispatchCount, loggerStatus, cacheWrite, checksumFile, temporaryDirectory,
                    cleanup, result >>

\* lines 66-117 of online-checksum.ts; a failure of writeFile or of the hook
\* is caught and logged as a warning.
\* the argument is the executor's deployedFilesToUpdateChecksum
updateOnlineChecksum ==
    /\ pc = "persist"
    /\ update.state = "running"
    /\ LET filesWithChecksum ==
               Filter(deployedFiles, { f \in Fns : checksum[f] # NoValue })
           newOnlineChecksum ==
               [n \in RemoteNames |->
                   IF n \in Range(filesWithChecksum) THEN checksum[n] ELSE NoValue]
       IN  IF filesWithChecksum = <<>>
           THEN update' = [update EXCEPT !.state = "skipped"]
           ELSE \E failAt \in {"none", "writeFile", "runFile"} :
                  update' =
                    [state |-> IF failAt = "none" THEN "done" ELSE "failed",
                     scriptWritten |-> failAt # "writeFile",
                     hookRuns |-> IF failAt = "writeFile" THEN 0 ELSE 1,
                     newFunctionsCache |->
                         IF failAt = "writeFile" THEN EmptyCache ELSE newOnlineChecksum]
    /\ UNCHANGED << pc, options, context, called, callResult, thrown, discovered, onlineChecksum,
                    checksum, build, check, deployableFunctions, deployedFiles,
                    failedFunctions, round, queue, running, results,
                    succeeded, dispatchCount, loggerStatus, cacheWrite, checksumFile, temporaryDirectory,
                    cleanup, result >>

\* variant: the temporary directory is removed whatever options.debug says
FinishRemovesAlways ==
    /\ pc = "persist"
    /\ \A f \in Fns : cacheWrite[f] # "running"
    /\ update.state # "running"
    /\ \E debug \in BOOLEAN :
          /\ \E removed \in BOOLEAN :
                temporaryDirectory' =
                    IF removed THEN "deleted" ELSE temporaryDirectory
          /\ cleanup' = [read |-> TRUE, debug |-> debug, rmCalls |-> 1]
    /\ result' = [returned |-> TRUE, success |-> SuccessFlag(hasFailedFunctions)]
    /\ pc' = "done"
    /\ UNCHANGED << options, context, called, callResult, thrown, discovered, onlineChecksum,
                    checksum, build, check, deployableFunctions, deployedFiles,
                    failedFunctions, round, queue, running, results,
                    succeeded, dispatchCount, loggerStatus, cacheWrite, checksumFile, update >>

\* lines 449-464: clean up and return.  options.debug is read here and
\* nowhere else, so its value is drawn here.
Finish ==
    /\ pc = "persist"
    /\ \A f \in Fns : cacheWrite[f] # "running"
    /\ update.state # "running"
    /\ \E debug \in BOOLEAN :
          IF ~debug
          THEN /\ \E removed \in BOOLEAN :
                    temporaryDirectory' =
                        IF removed THEN "deleted" ELSE temporaryDirectory
               /\ cleanup' = [read |-> TRUE, debug |-> FALSE, rmCalls |-> 1]
          ELSE /\ UNCHANGED temporaryDirectory
               /\ cleanup' = [read |-> TRUE, debug |-> TRUE, rmCalls |-> 0]
    /\ result' = [returned |-> TRUE, success |-> SuccessFlag(hasFailedFunctions)]
    /\ pc' = "done"
    /\ UNCHANGED << options, context, called, callResult, thrown, discovered, onlineChecksum,
                    checksum, build, check, deployableFunctions, deployedFiles,
                    failedFunctions, round, queue, running, results,
                    succeeded, dispatchCount, loggerStatus, cacheWrite, checksumFile, update >>

Next ==
    \/ getBaseOptions
    \/ getBuildableFiles
    \/ GetOnlineChecksum
    \/ MergeOnlineChecksum
    \/ \E f \in Fns : buildFunction(f)
    \/ StartChecks
    \/ \E f \in Fns : CheckForChanges(f)
    \/ StartDeploy
    \/ \E task \in Tasks : deployFunction(task)
    \/ FirstRoundDone
    \/ RetryRoundDone
    \/ \E f \in Fns : cacheChecksumLocal(f)
    \/ updateOnlineChecksum
    \/ Finish

Spec == Init /\ [][Next]_vars

\* a run with options.force and the retry amount LongRetry: no remote cache
\* is fetched and no function is reported unchanged
ForcedInit ==
    /\ options \in [ force : {TRUE}, retryAmount : {LongRetry},
                   concurrency : {Unset} \cup 1..MaxConcurrency ]
    /\ context \in Contexts
    /\ Constructed
    /\ called = NoCall
    /\ callResult = NotReturned

ForcedSpec == ForcedInit /\ [][Next]_vars


\* ================================================ functions called on their own
\* The executor is at rest; one function is called with an argument drawn
\* from a bounded set and returns or throws.
RestingExecutor ==
    /\ options = [force |-> FALSE, retryAmount |-> Unset, concurrency |-> Unset]
    /\ context = [projectName |-> TRUE, workspace |-> TRUE, firebaseProjectId |-> TRUE]
    /\ Constructed

Return(value) == [done |-> TRUE, threw |-> FALSE, value |-> value]
Throw(message) == [done |-> TRUE, threw |-> TRUE, value |-> message]

\* ----------------------------------------------------------- recordToString
\* Record<string, string>: up to MaxEntries entries in insertion order, the
\* keys of one record pairwise distinct strings
EnvironmentKeys == { <<"A">>, <<"B">>, <<"K">>, <<KelvinSign>> }
EnvironmentValues == { <<"i">>, <<"l">>, <<"i", "B", "=", "l">> }
Records ==
    { r \in UNION { [1..n -> EnvironmentKeys \X EnvironmentValues] : n \in 0..MaxEntries } :
        \A i, j \in 1..Len(r) : i # j => r[i][1] # r[j][1] }

\* the same key/value set in every insertion order
Reordered(record) ==
    { [i \in 1..Len(record) |-> record[p[i]]] : p \in Permutations(1..Len(record)) }

CallRecordToString ==
    /\ called.fn = "recordToString"
    /\ ~callResult.done
    /\ callResult' = Return(recordToString(called.record))
    /\ UNCHANGED << called, executorVars >>

\* ------------------------------------------------------------ toOptionsCode
\* Generated source text is a sequence of pieces; a template literal is the
\* concatenation of its pieces.  A JavaScript value is a record whose
\* `type` is its typeof, except "array" (Array.isArray) and "null".
Str(s) == [type |-> "string", string |-> s]
Num(n) == [type |-> "number", number |-> n]
Bool(b) == [type |-> "boolean", boolean |-> b]
Arr(elements) == [type |-> "array", elements |-> elements]
Obj(entries) == [type |-> "object", entries |-> entries]
Undefined == [type |-> "undefined"]
Function == [type |-> "function", text |-> "() => 1"]
Symbol == [type |-> "symbol"]
Null == [type |-> "null"]

\* typeof value === 'object' holds for objects and for null
TypeofObject(v) == v.type \in {"object", "null"}

RECURSIVE Join(_, _)
Join(texts, separator) ==
    IF texts = <<>> THEN <<>>
    ELSE IF Len(texts) = 1 THEN texts[1]
    ELSE texts[1] \o <<separator>> \o Join(Tail(texts), separator)

\* `${v}`: the string conversion of a value inside a template literal
RECURSIVE TemplateString(_)
TemplateString(v) ==
    CASE v.type = "string" -> <<v.string>>
      [] v.type = "number" -> <<ToString(v.number)>>
      [] v.type = "boolean" -> <<IF v.boolean THEN "true" ELSE "false">>
      [] v.type = "undefined" -> <<"undefined">>
      [] v.type = "null" -> <<"null">>
      [] v.type = "function" -> <<v.text>>
      [] v.type = "object" -> <<"[object Object]">>
      [] v.type = "array" ->
            Join([i \in 1..Len(v.elements) |->
                     IF v.elements[i].type \in {"undefined", "null"} THEN <<>>
                     ELSE TemplateString(v.elements[i])], ",")
      [] OTHER -> <<>>

\* `${v}` throws a TypeError for a symbol
RECURSIVE TemplateStringThrows(_)
TemplateStringThrows(v) ==
    \/ v.type = "symbol"
    \/ /\ v.type = "array"
       /\ \E i \in 1..Len(v.elements) : TemplateStringThrows(v.elements[i])

\* line 219: one element of an array value
ElementCode(v) ==
    IF v.type = "string" THEN <<"'", v.string, "'">> ELSE TemplateString(v)

\* variant: a value of an unsupported type is rendered like a number
RECURSIVE toOptionsCodeKeepsAll(_)
toOptionsCodeKeepsAll(object) ==
    LET EntryCode(key, value) ==
            IF value.type = "array"
            THEN <<"'", key, "': ", "[">>
                 \o Join([i \in 1..Len(value.elements) |-> ElementCode(value.elements[i])], ",")
                 \o <<"]", ",">>
            ELSE IF TypeofObject(value)
            THEN <<"'", key, "': ">> \o toOptionsCodeKeepsAll(value.entries) \o <<",">>
            ELSE <<"'", key, "': ">> \o ElementCode(value) \o <<",">>
        RECURSIVE Body(_)
        Body(entries) ==
            IF entries = <<>> THEN <<>>
            ELSE EntryCode(entries[1][1], entries[1][2]) \o Body(Tail(entries))
    IN  <<"{">> \o Body(object) \o <<"}">>

\* lines 214-245; object: the entries of `options` in Object.entries order
RECURSIVE toOptionsCode(_)
toOptionsCode(object) ==
    LET EntryCode(key, value) ==
            IF value.type = "array"
            THEN <<"'", key, "': ", "[">>
                 \o Join([i \in 1..Len(value.elements) |-> ElementCode(value.elements[i])], ",")
                 \o <<"]", ",">>
            ELSE IF TypeofObject(value)
            THEN <<"'", key, "': ">> \o toOptionsCode(value.entries) \o <<",">>
            ELSE IF value.type \notin {"string", "number", "boolean"}
            THEN <<>>
            ELSE <<"'", key, "': ">> \o ElementCode(value) \o <<",">>
        RECURSIVE Body(_)
        Body(entries) ==
            IF entries = <<>> THEN <<>>
            ELSE EntryCode(entries[1][1], entries[1][2]) \o Body(Tail(entries))
    IN  <<"{">> \o Body(object) \o <<"}">>

\* the TypeError the call ends with: Object.entries of null, or a symbol
\* converted to a string on line 219
RECURSIVE toOptionsCodeThrows(_)
toOptionsCodeThrows(object) ==
    \E i \in 1..Len(object) :
        LET value == object[i][2]
        IN  \/ /\ value.type = "array"
               /\ \E j \in 1..Len(value.elements) : TemplateStringThrows(value.elements[j])
            \/ value.type = "null"
            \/ value.type = "object" /\ toOptionsCodeThrows(value.entries)

\* the values an options object is drawn from
Scalars == { Str("x"), Num(60), Bool(TRUE) }
Unsupported == { Undefined, Function, Symbol }
NestedObject == Obj(<< <<"n", Num(1)>>, <<"u", Undefined>> >>)
NestedArray == Arr(<<Num(1), Str("y")>>)
ArrayElements == { Str("x"), Num(60), Undefined, NestedObject, NestedArray }
Arrays ==
    { Arr(<<e>>) : e \in ArrayElements }
        \cup { Arr(<<e1, e2>>) : e1 \in {Str("x"), Num(60)}, e2 \in ArrayElements }
OptionValues == Scalars \cup Unsupported \cup Arrays \cup {NestedObject, Null}
OptionKeys == {"a", "b", "c"}
OptionsObjects ==
    { o \in UNION { [1..n -> OptionKeys \X OptionValues] : n \in 0..MaxEntries } :
        \A i, j \in 1..Len(o) : i # j => o[i][1] # o[j][1] }

CallToOptionsCode ==
    /\ called.fn = "toOptionsCode"
    /\ ~callResult.done
    /\ callResult' = IF toOptionsCodeThrows(called.options) THEN Throw("TypeError")
                     ELSE Return(toOptionsCode(called.options))
    /\ UNCHANGED << called, executorVars >>

\* -------------------------------------------------------- toDeployIndexCode
\* BuildFunctionData is the sequence of its <<key, value>> entries.
functionStart == "functionStart"

\* buildFunctionData.key: undefined when the key is absent
Get(data, key) ==
    IF \E i \in 1..Len(data) : data[i][1] = key
    THEN data[CHOOSE i \in 1..Len(data) : data[i][1] = key][2]
    ELSE Undefined

\* the values in use as conditions: undefined, booleans, strings, objects
Truthy(v) ==
    CASE v.type \in {"undefined", "null"} -> FALSE
      [] v.type = "boolean" -> v.boolean
      [] v.type = "string" -> v.string # ""
      [] OTHER -> TRUE

\* the closed set of the DeployFunction type, in the order of the switch;
\* `trigger` is the deployFunction field of the function data
DeployFunctions ==
    << "onCall", "onRequest", "onCreate", "onDelete", "onUpdate", "onWrite",
       "topic", "schedule", "onObjectArchive", "onObjectDelete",
       "onObjectFinalize", "onObjectMetadataUpdate", "onRefCreate",
       "onRefDelete", "onRefUpdate", "onRefWrite" >>

\* variant: the storage archive trigger keeps its own name
toFunctionCodeTypeByName(trigger) == trigger

\* lines 145-182; the default case throws, see UnknownFunctionType
toFunctionCodeType(trigger) ==
    CASE trigger = "onObjectArchive" -> "onArchive"
      [] trigger = "onObjectDelete" -> "onDelete"
      [] trigger = "onObjectFinalize" -> "onFinalize"
      [] trigger = "onObjectMetadataUpdate" -> "onMetadataUpdate"
      [] trigger = "onRefCreate" -> "onCreate"
      [] trigger = "onRefDelete" -> "onDelete"
      [] trigger = "onRefUpdate" -> "onUpdate"
      [] trigger = "onRefWrite" -> "onWrite"
      [] OTHER -> trigger

\* the default case of the switch of toFunctionCodeType and of toEndCode
UnknownFunctionType(trigger) == trigger \notin Range(DeployFunctions)

\* lines 184-199; deployOptions is the function data, which is never falsy
getScheduleDeployCode(deployOptions) ==
    <<"schedule('">> \o TemplateString(Get(deployOptions, "schedule")) \o <<"').">>
        \o (IF Truthy(Get(deployOptions, "timeZone"))
            THEN <<"timeZone('">> \o TemplateString(Get(deployOptions, "timeZone"))
                 \o <<"').">>
            ELSE <<>>)
        \o <<"onRun", "(", functionStart, ")">>

\* lines 201-212
getTopicDeployCode(deployOptions) ==
    <<"topic('">> \o TemplateString(Get(deployOptions, "topic")) \o <<"').">>
        \o <<"onRun", "(", functionStart, ")">>

\* lines 111-143, for a deployFunction of the closed set
toEndCode(deployFileData) ==
    LET trigger == Get(deployFileData, "deployFunction").string
        path == TemplateString(Get(deployFileData, "path"))
        functionCode == toFunctionCodeType(trigger)
    IN  CASE trigger \in {"onCall", "onRequest"} ->
                <<functionCode, "(", functionStart, ");">>
          [] trigger \in {"onCreate", "onDelete", "onUpdate", "onWrite"} ->
                <<"document('">> \o path \o <<"').", functionCode, "(", functionStart, ");">>
          [] trigger \in {"onRefCreate", "onRefDelete", "onRefUpdate", "onRefWrite"} ->
                <<"ref('">> \o path \o <<"').", functionCode, "(", functionStart, ");">>
          [] trigger = "topic" -> getTopicDeployCode(deployFileData)
          [] trigger = "schedule" -> getScheduleDeployCode(deployFileData)
          [] OTHER ->
                <<"object().", functionCode, "(", functionStart, ");">>

\* lines 103-109
getRunWithCode(runtimeOptions) ==
    <<"runWith(">> \o toOptionsCode(runtimeOptions.entries) \o <<")">>

\* lines 91-101
getRootFunctionCode(buildFunctionData) ==
    LET rootFunctionBuilder == TemplateString(Get(buildFunctionData, "rootFunctionBuilder"))
        runtimeOptions == Get(buildFunctionData, "runtimeOptions")
    IN  IF ~Truthy(runtimeOptions) THEN rootFunctionBuilder
        ELSE getRunWithCode(runtimeOptions) \o <<".">> \o rootFunctionBuilder

\* lines 255-284
keysToDelete ==
    << "absolutePath", "alias", "assets", "checksum", "cloudCacheFileName",
       "defaultRegion", "deployFunction", "dryRun", "environmentFileCode",
       "external", "firebaseProjectId", "flavor", "force", "functionName",
       "functionsDirectory", "only", "outputDirectory", "outputRoot",
       "packageManager", "path", "projectRoot", "relativeDeployFilePath",
       "rootFunctionBuilder", "startTime", "temporaryDirectory", "tsConfig",
       "validate", "workspaceRoot" >>

\* lines 247-293; the spread keeps the entries in order and `region` is set
\* to the value it has (undefined, at the end, when the key is absent)
removeAllOtherOptions(buildFunctionData) ==
    LET spread ==
            IF \E i \in 1..Len(buildFunctionData) : buildFunctionData[i][1] = "region"
            THEN buildFunctionData
            ELSE buildFunctionData \o << <<"region", Undefined>> >>
    IN  SelectSeq(spread, LAMBDA entry :
                      entry[1] # "v2" /\ entry[1] \notin Range(keysToDelete))

\* lines 83-89
getV2Options(buildFunctionData) == toOptionsCode(removeAllOtherOptions(buildFunctionData))

\* absolutePath.replace('.ts', ''), for the paths in use
AbsolutePath == "src/controllers/created.ts"
PathWithoutSuffix(absolutePath) ==
    IF absolutePath = AbsolutePath THEN "src/controllers/created" ELSE absolutePath

\* lines 45-58
toDeployIndexV1Code(buildFunctionData) ==
    <<"import { region } from 'firebase-functions'; import ", functionStart, " from '",
      PathWithoutSuffix(Get(buildFunctionData, "absolutePath").string),
      "'; export const ", Get(buildFunctionData, "functionName").string,
      " = ", "region('">> \o TemplateString(Get(buildFunctionData, "region")) \o <<"').">>
        \o getRootFunctionCode(buildFunctionData) \o <<".">>
        \o toEndCode(buildFunctionData)

\* lines 69-80: the text toDeployV2IndexCode returns when it does not throw
toDeployV2IndexCode(buildFunctionData) ==
    LET trigger == Get(buildFunctionData, "deployFunction").string
    IN  <<"import { ", trigger, " } from 'firebase-functions/v2/https'; import ",
          functionStart, " from '",
          PathWithoutSuffix(Get(buildFunctionData, "absolutePath").string),
          "'; export const ", Get(buildFunctionData, "functionName").string,
          " = ", trigger, "(", "(">>
            \o getV2Options(buildFunctionData)
            \o <<")", ",", functionStart, ")", ";">>

\* variant: the v2 marker is not looked at
toDeployIndexCodeAlwaysV1(buildFunctionData) ==
    LET trigger == Get(buildFunctionData, "deployFunction").string
    IN  IF UnknownFunctionType(trigger)
        THEN Throw(<<"Unknown function type: ", trigger>>)
        ELSE Return(toDeployIndexV1Code(buildFunctionData))

\* lines 35-43, with the throw of line 63-67 and of the default cases
toDeployIndexCode(buildFunctionData) ==
    LET trigger == Get(buildFunctionData, "deployFunction").string
    IN  IF Truthy(Get(buildFunctionData, "v2"))
        THEN IF trigger # "onRequest" /\ trigger # "onCall"
             THEN Throw(<<"Invalid deploy function ", trigger, " for https v2">>)
             ELSE Return(toDeployV2IndexCode(buildFunctionData))
        ELSE IF UnknownFunctionType(trigger)
             THEN Throw(<<"Unknown function type: ", trigger>>)
             ELSE Return(toDeployIndexV1Code(buildFunctionData))

\* the function data the synthesis is called with: every field of the
\* exclusion list, a trigger kind of the closed set or a kind outside it, and
\* a choice of the other fields: the v2 marker, trigger and platform options,
\* and two fields of the base options that the function data carries along
\* (environment is read from it on lines 82 and 325)
RootFunctionBuilderOf(trigger) ==
    CASE trigger \in {"onCreate", "onDelete", "onUpdate", "onWrite"} -> "firestore"
      [] trigger \in {"onRefCreate", "onRefDelete", "onRefUpdate", "onRefWrite"} -> "database"
      [] trigger \in {"topic", "schedule"} -> "pubsub"
      [] trigger \in {"onObjectArchive", "onObjectDelete", "onObjectFinalize",
                             "onObjectMetadataUpdate"} -> "storage"
      [] OTHER -> "https"

BookkeepingValue(key, trigger) ==
    CASE key = "absolutePath" -> Str(AbsolutePath)
      [] key = "functionName" -> Str("users_created")
      [] key = "deployFunction" -> Str(trigger)
      [] key = "rootFunctionBuilder" -> Str(RootFunctionBuilderOf(trigger))
      [] key = "path" -> Str("users/{id}")
      [] key \in {"dryRun", "force", "validate"} -> Bool(FALSE)
      [] key \in {"assets", "external", "only"} -> Arr(<<Str("x")>>)
      [] key = "startTime" -> Num(60)
      [] OTHER -> Str(key)

OptionalFields ==
    [ v2 : {Undefined, Bool(TRUE), Bool(FALSE)},
      schedule : {Undefined, Str("every 5 minutes")},
      timeZone : {Undefined, Str("Europe/Oslo")},
      topic : {Undefined, Str("orders")},
      runtimeOptions : {Undefined, Obj(<< <<"timeoutSeconds", Num(60)>> >>)},
      memory : {Undefined, Str("2GB")},
      environment : {Undefined, Obj(<< <<"KEY", Str("x")>> >>)},
      currentTime : {Undefined, Num(60)} ]

OptionalKeys ==
    << "v2", "schedule", "timeZone", "topic", "runtimeOptions", "memory",
       "environment", "currentTime" >>

BuildFunctionData(trigger, fields) ==
    [i \in 1..Len(keysToDelete) |->
        <<keysToDelete[i], BookkeepingValue(keysToDelete[i], trigger)>>]
      \o << <<"region", Str("us-central1")>> >>
      \o SelectSeq([i \in 1..Len(OptionalKeys) |-> <<OptionalKeys[i], fields[OptionalKeys[i]]>>],
                   LAMBDA entry : entry[2] # Undefined)

BuildFunctionDatas ==
    { BuildFunctionData(trigger, fields) :
        trigger \in Range(DeployFunctions) \cup {"onEvent"},
        fields \in OptionalFields }

CallToDeployIndexCode ==
    /\ called.fn = "toDeployIndexCode"
    /\ ~callResult.done
    /\ callResult' = toDeployIndexCode(called.buildFunctionData)
    /\ UNCHANGED << called, executorVars >>

\* ---------------------------------------------------------- checkForChanges
\* the change check of one function whose build output declares or does not
\* declare the logger file; the baseline can also be the digest of a build
\* output with the logger file
LoggerChecksum ==
    generateChecksum(IndexCode \o LoggerCode \o recordToString(Environment))
CheckedFunctions ==
    [ checksum : BaselineChecksums \cup {LoggerChecksum, NoValue},
      force : BOOLEAN,
      hasLoggerFile : BOOLEAN,
      environment : {Environment} ]

CallCheckForChanges ==
    /\ called.fn = "checkForChanges"
    /\ ~callResult.done
    /\ callResult' = Return(checkForChanges(called.deployFunction, called.indexRead,
                                            called.loggerRead, called.checksumFileRead))
    /\ UNCHANGED << called, executorVars >>

CallInit ==
    /\ RestingExecutor
    /\ \/ \E r \in Records : called = [fn |-> "recordToString", record |-> r]
       \/ \E o \in OptionsObjects : called = [fn |-> "toOptionsCode", options |-> o]
       \/ \E d \in BuildFunctionDatas :
             called = [fn |-> "toDeployIndexCode", buildFunctionData |-> d]
       \/ \E fn \in CheckedFunctions,
             indexRead \in ReadResults({IndexCode}),
             loggerRead \in ReadResults({LoggerCode}),
             checksumFileRead \in ReadResults(BaselineChecksums \cup {LoggerChecksum}) :
             called = [fn |-> "checkForChanges", deployFunction |-> fn,
                       indexRead |-> indexRead, loggerRead |-> loggerRead,
                       checksumFileRead |-> checksumFileRead]
    /\ callResult = NotReturned

CallNext ==
    \/ CallRecordToString
    \/ CallToOptionsCode
    \/ CallToDeployIndexCode
    \/ CallCheckForChanges

CallSpec == CallInit /\ [][CallNext]_vars


\* ================================================================= claims
\* the functions the change check returned: the deploy set of the run
DeploySet == { f \in Fns : check[f].returned }
AfterDeploy == pc \in {"persist", "done"}
\* the first round left a function failed: one never deployed, or one was
\* dispatched a second time
LeftFailed == \E f \in DeploySet : f \notin succeeded \/ dispatchCount[f] > 1
StartupMessages == { "Project name is not defined", "Workspace is not defined",
                     "firebaseProjectId is required" }

\* C1: in a run with retryAmount > 0 whose first round left a function failed,
\* at the end a function of the deploy set is in the final deployed set if and
\* only if one of its deploys (first round or a retry round) succeeded.
C1_RetryConvergence ==
    (pc = "done" /\ options.retryAmount > 0 /\ LeftFailed)
        => \A f \in DeploySet : (f \in succeeded) <=> (f \in Range(deployedFiles))

C1_Witness ==
    /\ pc = "done"
    /\ options.retryAmount > 0
    /\ \E f \in DeploySet, g \in DeploySet :
          /\ dispatchCount[f] >= 2
          /\ loggerStatus[f] = "deployed"
          /\ f \in Range(deployedFiles)
          /\ g \notin succeeded
          /\ g \notin Range(deployedFiles)

\* C2: every retry round dispatches exactly the functions of the deploy set
\* that have not yet deployed successfully in this run.
C2_RetryDispatchesStillFailing ==
    [][ round' > round => Range(failedFunctions') = DeploySet \ succeeded ]_vars

C4_ChangeDetection ==
    \A f \in Fns :
        /\ (pc = "check" /\ check[f].outcome \in {"unchanged", "changed"}) =>
              /\ (/\ ~options.force
                  /\ check[f].cachedChecksum # NoValue
                  /\ check[f].cachedChecksum = check[f].newChecksum)
                     => (check[f].outcome = "unchanged" /\ ~check[f].returned)
              /\ options.force => (check[f].outcome = "changed" /\ check[f].returned)
        /\ (pc \in {"deploy", "retry", "persist", "done"}) =>
              /\ check[f].outcome = "unchanged" =>
                    (f \notin Range(deployableFunctions) /\ dispatchCount[f] = 0)
              /\ (options.force /\ check[f].outcome = "changed") =>
                    f \in Range(deployableFunctions)

C4_Witness ==
    /\ pc = "check"
    /\ options.force
    /\ \E f \in Fns :
          /\ check[f].outcome = "changed"
          /\ check[f].cachedChecksum # NoValue
          /\ check[f].cachedChecksum = check[f].newChecksum
          /\ check[f].returned

C6_NoRetryWithoutRetryAmount ==
    options.retryAmount \in {Unset, 0} =>
        /\ pc # "retry"
        /\ \A f \in Fns : dispatchCount[f] <= 1
        /\ AfterDeploy => \A f \in DeploySet :
              /\ dispatchCount[f] = 1
              /\ f \notin succeeded => f \notin Range(deployedFiles)

C6_Witness ==
    /\ pc = "done"
    /\ options.retryAmount \in {Unset, 0}
    /\ \E f \in DeploySet :
          /\ f \notin succeeded
          /\ dispatchCount[f] = 1
          /\ f \notin Range(deployedFiles)

\* C7: a change check that raises returns the function, the function is in
\* the deploy set and dispatched, and the executor does not reject; a missing
\* or unreadable local checksum file is no baseline and the function is kept.
C7_FailOpen ==
    \A f \in Fns :
        /\ check[f].outcome = "error" =>
              /\ check[f].returned
              /\ pc # "threw"
              /\ pc \in {"deploy", "retry", "persist", "done"} =>
                    (f \in Range(deployableFunctions) /\ dispatchCount[f] >= 1)
        /\ (/\ pc = "check"
            /\ check[f].outcome \in {"unchanged", "changed"}
            /\ check[f].cachedChecksum = NoValue) => check[f].returned

C7_Witness ==
    /\ pc = "deploy"
    /\ \E f \in Fns :
          /\ check[f].outcome = "error"
          /\ f \in Range(deployableFunctions)
          /\ dispatchCount[f] = 1

\* C8: every deploy operation waiting or in flight belongs to the current
\* round: no operation of a round starts while one of another round is
\* unsettled.
C8_RoundSeparation ==
    /\ \A t \in running : t[2] = round
    /\ \A i \in 1..Len(queue) : queue[i][2] = round

C8_Witness ==
    /\ pc = "retry"
    /\ round = 1
    /\ \E t \in running : t[2] = 1

\* C9: a failed deploy stops no sibling: once the rounds are over every
\* function of the deploy set was dispatched and has settled, and every
\* deployed function that carries a checksum had its local checksum write
\* and the remote update started; the executor rejects only with a startup
\* error, before discovery, any build and any deploy.
C9_SiblingIsolation ==
    /\ AfterDeploy => \A f \in DeploySet :
          /\ dispatchCount[f] >= 1
          /\ loggerStatus[f] # "none"
    /\ pc = "done" =>
          /\ \A f \in DeploySet :
                (f \in succeeded /\ checksum[f] # NoValue)
                    => cacheWrite[f] \in {"written", "failed"}
          /\ update.state \in {"skipped", "done", "failed"}
    /\ pc = "threw" =>
          /\ thrown \in StartupMessages
          /\ ~(context.projectName /\ context.workspace /\ context.firebaseProjectId)
          /\ ~discovered
          /\ ~onlineChecksum.settled
          /\ \A f \in Fns : build[f] = "idle" /\ dispatchCount[f] = 0

C9_Witness ==
    /\ pc = "done"
    /\ \E f \in DeploySet, g \in DeploySet :
          /\ f \notin succeeded
          /\ loggerStatus[f] = "failed"
          /\ g \in succeeded
          /\ cacheWrite[g] = "written"
          /\ checksumFile[g] = checksum[g]

\* C10: a fetch of the remote cache that fails at any step returns no remote
\* cache, the run goes on and no function gets a remote baseline; with force
\* the fetch hook is never executed.
C10_RemoteFetchDegrades ==
    /\ (onlineChecksum.settled /\ onlineChecksum.failedAt # "none") =>
          (~onlineChecksum.defined /\ onlineChecksum.cache = EmptyCache)
    /\ (onlineChecksum.settled /\ ~onlineChecksum.defined) =>
          /\ pc # "threw"
          /\ pc \in {"discover", "build"} => \A f \in Fns : checksum[f] = NoValue
          /\ pc = "check" => \A f \in Fns :
                check[f].outcome = "running" => checksum[f] = NoValue
    /\ options.force =>
          (onlineChecksum.hookRuns = 0 /\ ~onlineChecksum.scriptWritten)

C10_Witness ==
    /\ pc = "build"
    /\ ~options.force
    /\ ~onlineChecksum.defined
    /\ onlineChecksum.hookRuns = 1
    /\ \A f \in Fns : checksum[f] = NoValue

\* C11: a failed write of a local checksum file or a failed remote-cache
\* update is swallowed: the executor does not reject, it returns the success
\* flag the deploys alone decide, and every other deployed function that
\* carries a checksum still has its local write carried out.
C11_CacheWriteFailuresSwallowed ==
    ((\E f \in Fns : cacheWrite[f] = "failed") \/ update.state = "failed") =>
        /\ pc \in {"persist", "done"}
        /\ thrown = ""
        /\ pc = "done" =>
              /\ result.returned
              /\ result.success <=> (\A f \in DeploySet : f \in succeeded)
              /\ \A g \in Range(deployedFiles) :
                    checksum[g] # NoValue =>
                        /\ cacheWrite[g] \in {"written", "failed"}
                        /\ cacheWrite[g] = "written" => checksumFile[g] = checksum[g]

C11_Witness ==
    /\ pc = "done"
    /\ result.success
    /\ update.state = "failed"
    /\ \E f \in Fns, g \in Fns :
          /\ cacheWrite[f] = "failed"
          /\ cacheWrite[g] = "written"
          /\ checksumFile[g] = checksum[g]

\* C12: the mapping handed to the remote-cache update hook has the checksum of
\* every deployed function that carries one and no entry for any other name;
\* when no deployed function carries a checksum, no script is written and the
\* hook does not run.
C12_RemoteUpdateContent ==
    LET withChecksum == { f \in Range(deployedFiles) : checksum[f] # NoValue }
    IN  (pc \in {"persist", "done"} /\ update.state # "running") =>
            /\ update.hookRuns = 1 =>
                  \A n \in RemoteNames :
                      update.newFunctionsCache[n] =
                          (IF n \in withChecksum THEN checksum[n] ELSE NoValue)
            /\ withChecksum = {} =>
                  /\ update.state = "skipped"
                  /\ update.hookRuns = 0
                  /\ ~update.scriptWritten

C12_Witness ==
    /\ pc = "done"
    /\ update.hookRuns = 1
    /\ \E f \in Range(deployedFiles), g \in Range(deployedFiles) :
          /\ checksum[f] # NoValue
          /\ update.newFunctionsCache[f] = checksum[f]
          /\ checksum[g] = NoValue
          /\ update.newFunctionsCache[g] = NoValue

\* C14: the build operations started and not settled never exceed the
\* concurrency option (10 when it is unset).
C14_BuildsGated ==
    Cardinality({ f \in Fns : build[f] = "running" }) <=
        (IF options.concurrency = Unset THEN DefaultConcurrency ELSE options.concurrency)

\* the digest checkForChanges computes for the build output and an environment
DigestOf(environment) ==
    checkForChanges([checksum |-> NoValue, force |-> FALSE, hasLoggerFile |-> FALSE,
                     environment |-> environment],
                    ReadOk(IndexCode), ReadError, ReadError).newChecksum

\* C13: recordToString returns the same string for every insertion order of
\* the same key/value set, so the digest of the same build output and the
\* same key/value set is the same in every run.
C13_OrderIndependence ==
    (called.fn = "recordToString" /\ callResult.done) =>
        \A other \in Reordered(called.record) :
            /\ recordToString(other) = callResult.value
            /\ DigestOf(other) = DigestOf(called.record)

\* reading the generated literal: the places where a key is emitted, and the
\* pieces between the brackets that follow a key
KeyPlaces(code, key) ==
    { i \in 1..(Len(code) - 2) :
        code[i] = "'" /\ code[i + 1] = key /\ code[i + 2] = "': " }
ArraySegment(code, key) ==
    LET i == CHOOSE k \in KeyPlaces(code, key) : TRUE
        j == CHOOSE k \in (i + 4)..Len(code) :
                /\ code[k] = "]"
                /\ \A m \in (i + 4)..(k - 1) : code[m] # "]"
    IN  SubSeq(code, i + 4, j - 1)
ScalarPieces == { "x", "60" }
RECURSIVE Pieces(_, _)
Pieces(code, keep) ==
    IF code = <<>> THEN <<>>
    ELSE (IF Head(code) \in keep THEN <<Head(code)>> ELSE <<>>) \o Pieces(Tail(code), keep)
RECURSIVE ScalarsOf(_)
ScalarsOf(elements) ==
    IF elements = <<>> THEN <<>>
    ELSE (IF elements[1].type \in {"string", "number"}
          THEN TemplateString(elements[1]) ELSE <<>>) \o ScalarsOf(Tail(elements))

RECURSIVE RenderedValue(_)
RenderedValue(v) ==
    LET Supported(elements) ==
            SelectSeq(elements, LAMBDA e : e.type \in {"string", "number", "boolean",
                                                         "array", "object"})
        RECURSIVE Entries(_)
        Entries(entries) ==
            IF entries = <<>> THEN <<>>
            ELSE (IF RenderedValue(entries[1][2]) = <<>> THEN <<>>
                  ELSE <<"'", entries[1][1], "': ">>
                       \o RenderedValue(entries[1][2]) \o <<",">>)
                 \o Entries(Tail(entries))
    IN  CASE v.type = "string" -> <<"'", v.string, "'">>
          [] v.type \in {"number", "boolean"} -> TemplateString(v)
          [] v.type = "object" -> <<"{">> \o Entries(v.entries) \o <<"}">>
          [] v.type = "array" ->
                <<"[">> \o Join([i \in 1..Len(Supported(v.elements)) |->
                                    RenderedValue(Supported(v.elements)[i])], ",")
                       \o <<"]">>
          [] OTHER -> <<>>

\* C19: in the generated literal every element of an array value is rendered
\* by the per-value rule, nested objects and nested arrays included.
C19_ArrayElementsByValueRule ==
    (called.fn = "toOptionsCode" /\ callResult.done /\ ~callResult.threw) =>
        \A i \in 1..Len(called.options) :
            called.options[i][2].type = "array" =>
                <<"[">> \o ArraySegment(callResult.value, called.options[i][1]) \o <<"]">>
                    = RenderedValue(called.options[i][2])

\* reading a synthesis call: its function data and what it returned
Synthesized == called.fn = "toDeployIndexCode" /\ callResult.done
TriggerOf(data) == Get(data, "deployFunction").string
HttpTriggers == { "onCall", "onRequest" }
\* the places where `name` is called with the handler as its last argument
HandlerCalls(code, name) ==
    { i \in 1..(Len(code) - 2) :
        code[i] = name /\ code[i + 1] = "(" /\ code[i + 2] = functionStart }
\* the pieces after the root function builder: the terminator of the v1 chain
Terminator(code, data) ==
    LET i == CHOOSE k \in 1..Len(code) :
                 code[k] = Get(data, "rootFunctionBuilder").string
    IN  SubSeq(code, i + 2, Len(code))

\* C15: with the v2 marker set, synthesis of a trigger other than onCall and
\* onRequest throws "Invalid deploy function ... for https v2" and returns
\* no source text; synthesis of onCall or onRequest returns a text in which
\* the binding is called directly with the options literal and the handler,
\* with no region(...) chain.
C15_V2Validity ==
    (Synthesized /\ Truthy(Get(called.buildFunctionData, "v2"))) =>
        LET data == called.buildFunctionData
            code == callResult.value
        IN  IF TriggerOf(data) \in HttpTriggers
            THEN /\ ~callResult.threw
                 /\ \E i \in 1..(Len(code) - 3) :
                       /\ code[i] = " = "
                       /\ code[i + 1] = TriggerOf(data)
                       /\ code[i + 2] = "("
                       /\ SubSeq(code, i + 3, Len(code)) =
                              <<"(">> \o toOptionsCode(removeAllOtherOptions(data))
                                  \o <<")", ",", functionStart, ")", ";">>
                 /\ \A i \in 1..Len(code) : code[i] # "region('"
            ELSE /\ callResult.threw
                 /\ code = <<"Invalid deploy function ", TriggerOf(data), " for https v2">>

C15_Witness ==
    /\ Synthesized
    /\ Truthy(Get(called.buildFunctionData, "v2"))
    /\ TriggerOf(called.buildFunctionData) = "schedule"
    /\ callResult.threw

\* C16: synthesis of a schedule function without a schedule option, or of a
\* topic function without a topic option, throws instead of returning text.
C16_MissingTriggerOption ==
    (Synthesized /\ ~Truthy(Get(called.buildFunctionData, "v2"))) =>
        /\ (/\ TriggerOf(called.buildFunctionData) = "schedule"
            /\ Get(called.buildFunctionData, "schedule") = Undefined)
                => callResult.threw
        /\ (/\ TriggerOf(called.buildFunctionData) = "topic"
            /\ Get(called.buildFunctionData, "topic") = Undefined)
                => callResult.threw

\* the TriggerKind -> verb table
Verb(trigger) ==
    CASE trigger \in {"onCreate", "onRefCreate"} -> "onCreate"
      [] trigger \in {"onUpdate", "onRefUpdate"} -> "onUpdate"
      [] trigger \in {"onDelete", "onRefDelete", "onObjectDelete"} -> "onDelete"
      [] trigger \in {"onWrite", "onRefWrite"} -> "onWrite"
      [] trigger = "onObjectArchive" -> "onArchive"
      [] trigger = "onObjectFinalize" -> "onFinalize"
      [] trigger = "onObjectMetadataUpdate" -> "onMetadataUpdate"
      [] trigger \in {"schedule", "topic"} -> "onRun"
      [] OTHER -> trigger
Verbs == { Verb(DeployFunctions[i]) : i \in 1..Len(DeployFunctions) }
PathBearing ==
    { "onCreate", "onUpdate", "onDelete", "onWrite",
      "onRefCreate", "onRefUpdate", "onRefDelete", "onRefWrite" }

\* C17: for every trigger kind of the closed set the v1 terminator calls the
\* verb of the table, once, with the handler, and no other verb; document and
\* ref triggers have their path before the verb, schedule and topic have
\* their schedule/timeZone or topic call before onRun; a trigger kind
\* outside the set throws "Unknown function type".
C17_SynthesisExhaustive ==
    (Synthesized /\ ~Truthy(Get(called.buildFunctionData, "v2"))) =>
        LET data == called.buildFunctionData
            trigger == TriggerOf(data)
            code == callResult.value
        IN  IF trigger \notin Range(DeployFunctions)
            THEN /\ callResult.threw
                 /\ code = <<"Unknown function type: ", trigger>>
            ELSE LET end == Terminator(code, data)
                     Before(piece, place) == \E i \in 1..(place - 1) : end[i] = piece
                 IN  /\ ~callResult.threw
                     /\ Cardinality(HandlerCalls(end, Verb(trigger))) = 1
                     /\ \A other \in Verbs \ {Verb(trigger)} : HandlerCalls(end, other) = {}
                     /\ \A place \in HandlerCalls(end, Verb(trigger)) :
                           /\ trigger \in PathBearing =>
                                 /\ Before(Get(data, "path").string, place)
                                 /\ end[1] = (IF trigger \in {"onCreate", "onUpdate",
                                                               "onDelete", "onWrite"}
                                              THEN "document('" ELSE "ref('")
                           /\ trigger = "schedule" =>
                                 /\ end[1] = "schedule('"
                                 /\ Truthy(Get(data, "timeZone")) =>
                                       /\ Before("timeZone('", place)
                                       /\ Before(Get(data, "timeZone").string, place)
                           /\ trigger = "topic" => end[1] = "topic('"

C17_Witness ==
    /\ Synthesized
    /\ ~callResult.threw
    /\ TriggerOf(called.buildFunctionData) = "onObjectArchive"
    /\ Get(called.buildFunctionData, "v2") = Undefined
    /\ Terminator(callResult.value, called.buildFunctionData) =
           <<"object().", "onArchive", "(", functionStart, ");">>

\* the fields of the function data that are not platform options: the
\* exclusion list, the v2 marker, and the fields getBaseOptions sets next to
\* the listed ones (lines 300-323 of online-checksum.ts)
BookkeepingFields ==
    Range(keysToDelete) \cup {"v2", "environment", "currentTime"}

\* C20: the options literal of a generated v2 source has no key that is a
\* bookkeeping field of the function data.
C20_BookkeepingStripped ==
    (Synthesized /\ ~callResult.threw /\ Truthy(Get(called.buildFunctionData, "v2"))) =>
        \A key \in BookkeepingFields : KeyPlaces(callResult.value, key) = {}

\* the deploy rounds, the local checksum writes and the remote update are over
Settled ==
    /\ queue = <<>>
    /\ running = {}
    /\ \A f \in Fns : cacheWrite[f] # "running"
    /\ update.state # "running"

\* C21: without debug the temporary directory is removed by one rm call, made
\* once every deploy round, every local checksum write and the remote update
\* have settled; with debug no rm call is made and the directory stays; a
\* failed rm leaves the returned success flag as the deploys decided it.
C21_Cleanup ==
    /\ cleanup.rmCalls <= 1
    /\ (cleanup.rmCalls = 1 \/ temporaryDirectory = "deleted") =>
          (pc = "done" /\ ~cleanup.debug /\ cleanup.rmCalls = 1 /\ Settled)
    /\ pc = "done" =>
          /\ cleanup.read
          /\ ~cleanup.debug => cleanup.rmCalls = 1
          /\ cleanup.debug => (cleanup.rmCalls = 0 /\ temporaryDirectory = "present")
          /\ thrown = ""
          /\ result.returned
          /\ result.success <=> (\A f \in DeploySet : f \in succeeded)

C21_Witness ==
    /\ pc = "done"
    /\ ~cleanup.debug
    /\ cleanup.rmCalls = 1
    /\ temporaryDirectory = "present"
    /\ update.scriptWritten
    /\ result.success
    /\ \E f \in Fns : cacheWrite[f] = "written"

\* C22: a build starts only when discovery and the remote-cache fetch have
\* settled; a change check starts only when every build has settled; a deploy
\* is handed to a limiter only when every change check has settled; a local
\* checksum write or the remote update starts, and a checksum is persisted,
\* only when no deploy of any round is waiting or running.
C22_PhaseOrdering ==
    [][ \A f \in Fns :
          /\ (build[f] # "running" /\ build'[f] = "running") =>
                (discovered /\ onlineChecksum.settled)
          /\ (check[f].outcome # "running" /\ check'[f].outcome = "running") =>
                \A g \in Fns : build[g] \in {"built", "failed"}
          /\ dispatchCount'[f] > dispatchCount[f] =>
                \A g \in Fns : check[g].outcome \in {"unchanged", "changed", "error"}
          /\ (\/ cacheWrite[f] # "running" /\ cacheWrite'[f] = "running"
              \/ update.state # "running" /\ update'.state = "running"
              \/ checksumFile'[f] # checksumFile[f]
              \/ update'.hookRuns > update.hookRuns) =>
                (queue = <<>> /\ running = {} /\ pc' = "persist")
      ]_vars

C22_Witness ==
    /\ pc = "done"
    /\ update.hookRuns = 1
    /\ \E f \in Fns :
          /\ check[f].outcome = "changed"
          /\ dispatchCount[f] >= 2
          /\ checksumFile[f] # NoValue

\* the retry round that has settled: what it leaves of the failing set
StillFailing == Filter(failedFunctions, Fns \ Returned)
RetrySettled == pc = "retry" /\ PromiseAllSettled(round)

\* C23: when a settled retry round leaves the failing set empty, the step
\* that follows dispatches no deploy, and when the round emptied the set by
\* redeploying its functions the retries are over at once, whatever
\* retryAmount allows; the retry rounds never exceed retryAmount and no
\* function is dispatched more than 1 + retryAmount times.
C23_EarlyStop ==
    [][ /\ (RetrySettled /\ StillFailing = <<>>) =>
              /\ dispatchCount' = dispatchCount
              /\ queue' = <<>> /\ running' = {}
              /\ failedFunctions # <<>> => pc' = "persist"
        /\ round' <= RetryRounds(options.retryAmount)
        /\ \A f \in Fns : dispatchCount'[f] <= 1 + RetryRounds(options.retryAmount)
      ]_vars

C23_Witness ==
    /\ pc = "persist"
    /\ options.retryAmount = LongRetry
    /\ \E f \in Fns : dispatchCount[f] = 2 /\ loggerStatus[f] = "deployed"
    /\ \A f \in Fns : dispatchCount[f] <= 2

\* the entry the fetched remote cache has for a name (none when no cache)
RemoteEntry(n) == IF onlineChecksum.defined THEN onlineChecksum.cache[n] ELSE NoValue

\* C24: a discovered function enters its change check with the entry the
\* fetched remote cache has for it, whatever the cache holds for other
\* names; when it has an entry, the entry is the baseline and the local
\* checksum file is not read; when it has none, the local file is read and
\* is the baseline.
C24_BaselinePrecedence ==
    \A f \in Fns :
        /\ (pc = "build" \/ (pc = "check" /\ check[f].outcome = "running")) =>
              checksum[f] = RemoteEntry(f)
        /\ (pc = "check" /\ check[f].outcome \in {"unchanged", "changed"}) =>
              IF RemoteEntry(f) # NoValue
              THEN /\ check[f].cachedChecksum = RemoteEntry(f)
                   /\ ~check[f].fileRead
              ELSE /\ check[f].fileRead
                   /\ check[f].cachedChecksum \in BaselineChecksums \cup {NoValue}

C24_Witness ==
    /\ pc = "check"
    /\ RemoteEntry(StrangerFn) # NoValue
    /\ \E f \in Fns, g \in Fns :
          /\ RemoteEntry(f) = StaleChecksum
          /\ check[f].outcome = "changed"
          /\ check[f].cachedChecksum = StaleChecksum
          /\ ~check[f].fileRead
          /\ RemoteEntry(g) = NoValue
          /\ check[g].outcome = "unchanged"
          /\ check[g].fileRead
          /\ check[g].cachedChecksum = check[g].newChecksum

\* C25: for a function that declares the logger file and whose build output
\* is read, the change check never ends in its catch block; when the logger
\* file cannot be read the digest is that of the build output and the
\* serialized environment, when it is read its content is hashed between the
\* two; in both cases the function is returned unless force is off and the
\* baseline exists and equals the digest.
C25_LoggerFileBestEffort ==
    (/\ called.fn = "checkForChanges"
     /\ callResult.done
     /\ called.deployFunction.hasLoggerFile
     /\ called.indexRead.ok) =>
        LET fn == called.deployFunction
            r == callResult.value
            baseline == IF fn.checksum # NoValue THEN fn.checksum
                        ELSE IF called.checksumFileRead.ok
                        THEN called.checksumFileRead.text ELSE NoValue
            digest == generateChecksum(
                          called.indexRead.text
                          \o (IF called.loggerRead.ok THEN called.loggerRead.text ELSE <<>>)
                          \o recordToString(fn.environment))
        IN  /\ ~callResult.threw
            /\ r.outcome \in {"unchanged", "changed"}
            /\ r.newChecksum = digest
            /\ r.cachedChecksum = baseline
            /\ r.outcome = "unchanged" <=>
                  (~fn.force /\ baseline # NoValue /\ baseline = digest)
            /\ r.returned <=> r.outcome = "changed"

C25_Witness ==
    /\ called.fn = "checkForChanges"
    /\ callResult.done
    /\ called.deployFunction.hasLoggerFile
    /\ called.indexRead.ok
    /\ ~called.loggerRead.ok
    /\ called.deployFunction.checksum = NoValue
    /\ callResult.value.outcome = "unchanged"
    /\ callResult.value.newChecksum =
           generateChecksum(IndexCode \o recordToString(Environment))

\* C26: a function none of whose deploys of this run succeeded has no local
\* checksum write started, no checksum file written and no entry in the
\* mapping of the remote update.
C26_PersistOnlyDeployed ==
    \A f \in Fns :
        f \notin succeeded =>
            /\ cacheWrite[f] = "idle"
            /\ checksumFile[f] = NoValue
            /\ update.newFunctionsCache[f] = NoValue

C26_Witness ==
    /\ pc = "done"
    /\ update.hookRuns = 1
    /\ \E f \in DeploySet, g \in DeploySet :
          /\ f \notin succeeded
          /\ dispatchCount[f] >= 1
          /\ checksum[f] # NoValue
          /\ checksumFile[f] = NoValue
          /\ update.newFunctionsCache[f] = NoValue
          /\ g \in succeeded
          /\ checksumFile[g] = checksum[g]
          /\ update.newFunctionsCache[g] = checksum[g]

\* the digest of the build output and the environment of this run
CurrentDigest == generateChecksum(IndexCode \o recordToString(Environment))

\* C27: every checksum written to a local checksum file or placed in the
\* mapping of the remote update is the digest of the function's build output
\* and environment of this run.
C27_PersistedIsCurrentDigest ==
    \A f \in Fns :
        /\ checksumFile[f] # NoValue => checksumFile[f] = CurrentDigest
        /\ update.newFunctionsCache[f] # NoValue =>
              update.newFunctionsCache[f] = CurrentDigest

\* C28: a change check is started, and a deploy is handed to the limiter
\* when the change checks are over, only for a function whose build
\* succeeded.
C28_OnlyBuiltFunctionsGoOn ==
    [][ \A f \in Fns :
          /\ (check[f].outcome # "running" /\ check'[f].outcome = "running") =>
                build[f] = "built"
          /\ (pc = "check" /\ dispatchCount'[f] > dispatchCount[f]) =>
                build[f] = "built"
      ]_vars

\* C29: once a function is reported unchanged, and at every later step, its
\* checksum field is what it was, it is in no list of functions to deploy
\* and no deploy of it is waiting, running or was ever dispatched, no local
\* checksum write is started for it, its checksum file is not written, and
\* the mapping of the remote update has no entry for it.
C29_UnchangedUntouched ==
    [][ \A f \in Fns :
          check'[f].outcome = "unchanged" =>
              /\ checksum'[f] = checksum[f]
              /\ dispatchCount'[f] = 0
              /\ \A t \in running' \cup Range(queue') : t[1] # f
              /\ pc' \in {"deploy", "retry", "persist", "done"} =>
                    f \notin Range(deployableFunctions') \cup Range(deployedFiles')
                                \cup Range(failedFunctions')
              /\ f \notin succeeded'
              /\ loggerStatus'[f] = "none"
              /\ cacheWrite'[f] = "idle"
              /\ checksumFile'[f] = NoValue
              /\ update'.newFunctionsCache[f] = NoValue
      ]_vars

C29_Witness ==
    /\ pc = "done"
    /\ options.retryAmount > 0
    /\ update.hookRuns = 1
    /\ \E f \in Fns, g \in Fns :
          /\ check[f].outcome = "unchanged"
          /\ checksum[f] = CurrentDigest
          /\ dispatchCount[f] = 0
          /\ checksumFile[f] = NoValue
          /\ update.newFunctionsCache[f] = NoValue
          /\ dispatchCount[g] = 1
          /\ checksumFile[g] = checksum[g]
          /\ update.newFunctionsCache[g] = checksum[g]

\* C30: two environments that differ in a key or in a value are serialized
\* by recordToString to different strings, and the digests of the same
\* build output with the one and with the other differ.
C30_SerializationDistinguishes ==
    (called.fn = "recordToString" /\ callResult.done) =>
        \A other \in Records :
            Range(other) # Range(called.record) =>
                /\ recordToString(other) # callResult.value
                /\ DigestOf(other) # DigestOf(called.record)

====
